---- MODULE Spec2Model ----
(***************************************************************************)
(* Token lifecycle of the theatre auth service: JwtTokenBuilder, the       *)
(* Access/Refresh token factories, the handler chain and the               *)
(* AuthenticationService flows, over a Redis key-value store with TTLs.    *)
(*                                                                         *)
(* Time is counted in clock ticks ("seconds" of the model).  The scale is  *)
(* shrunk: an hour has SecondsPerHour ticks and a day HoursPerDay hours,   *)
(* so that the factor 24 * 60 * 60 of the code is SecondsPerDay here.      *)
(* Naive datetimes are taken in a zone without DST shifts (UTC).           *)
(* The collaborators (Redis, the users table, the login history) answer    *)
(* every call; the one outage modelled is the refresh that stops between   *)
(* its revoke and its create (RaceSpec).                                   *)
(*                                                                         *)
(* Beside it: the auth service's login of an SSO user, and of the          *)
(* notification services the email worker's _send_email and the            *)
(* notification API's WSConnectionManager.                                 *)
(*                                                                         *)
(* Seven specifications share the variables; each leaves the variables of  *)
(* the others at Unused:                                                   *)
(*   Spec         the request flows, one request at a time                 *)
(*   BuilderSpec  the startup of two nodes: builder configuration, init()  *)
(*   CoderSpec    one token built, kept and checked, on either PyJWT       *)
(*   RaceSpec     two calls for one subject, interleaved store call by     *)
(*                store call                                               *)
(*   SsoSpec      handle_sso_user over a users table that grows            *)
(*   MailSpec     EmailWorker._send_email, await by await                  *)
(*   WsSpec       WSConnectionManager.connect and disconnect               *)
(***************************************************************************)
EXTENDS Integers, Sequences, FiniteSets, TLC

\* ------------------------------------------------------------------ state
VARIABLES
    now,      \* the clock, in ticks
    store,    \* Redis: subject key -> entry
    held,     \* user id -> an Access Token the user's client holds
    logged_out, \* user id -> TRUE from a successful logout to the next successful login
    last,     \* the request served at this instant: its inputs, the subject's entry before it, its outcome
    exp_second_rejected, \* the installed PyJWT rejects a token in the very second of its exp
    nodes,    \* node -> its Token Builder and its place in the startup
    secret_store, \* Redis: the value under the secret key header, "" when absent
    overlapped, \* TRUE once an init() read the store while another init() had read "absent" and not yet written
    restarts, \* process restarts so far
    issued,   \* a token a builder handed out and a client presents again
    checked,  \* the outcome of the last decode or expiry check of a token
    procs,    \* worker -> the call it is executing and its place in it
    users,    \* the users table of the SSO logins: a set of rows
    sso_last, \* the handle_sso_user call served last: its identity, whether it was known, its outcome
    notification_status, \* recipient -> status of the recipient's notification document
    accepted, \* the recipients for whom smtp_client.send_message returned
    sending,  \* the _send_email call under way: recipients left, the current one, the place in the call
    active_connections, \* WSConnectionManager.active_connections: user id -> list of websockets
    ws_count, \* user id -> websocket -> connects minus the disconnects that found it listed
    ws_last   \* the connect or disconnect served last, with the dict it found

\* ------------------------------------------------------------------ scale
SecondsPerHour == 1
HoursPerDay == 2
SecondsPerDay == HoursPerDay * SecondsPerHour
\* last instant of the model clock
MaxTime == 2

\* G_JWT_SETTINGS (environment configuration)
access_token_lifetime_hours == 1
refresh_token_lifetime_days == 1

\* datetime.timedelta(hours=h), timedelta(days=d), as a number of ticks
timedelta_hours(h) == h * SecondsPerHour
timedelta_days(d) == d * SecondsPerDay

Abs(x) == IF x < 0 THEN -x ELSE x

\* ------------------------------------------------------------ user store
\* werkzeug: the users table keeps a hash of the password
generate_password_hash(password) == << "hash", password >>
check_password_hash(pwhash, password) == pwhash = generate_password_hash(password)

\* rows of the users table: id, login, password hash
UserTable ==
    { [id |-> 1, login |-> "alice", password |-> generate_password_hash("pw_alice")],
      [id |-> 2, login |-> "bob", password |-> generate_password_hash("pw_bob")] }
UserIds == { u.id : u \in UserTable }
\* the inputs of a login request
Logins == { u.login : u \in UserTable } \cup { "mallory" }
Passwords == { "pw_alice", "pw_bob", "wrong" }

NoUser == [id |-> 0, login |-> ""]

\* UserDB._get_orm_base_by_login
get_orm_base_by_login(login) ==
    IF \E u \in UserTable : u.login = login
    THEN CHOOSE u \in UserTable : u.login = login
    ELSE [id |-> 0, login |-> "", password |-> << >>]

\* UserDB.check_password: False for an unknown login, else the row's check
check_password(login, password) ==
    LET orm_user == get_orm_base_by_login(login) IN
    IF orm_user.id = 0 THEN FALSE ELSE check_password_hash(orm_user.password, password)

\* UserDB.get_by_login: the row as a UserInDB dto (no password), or None
get_by_login(login) ==
    LET orm_user == get_orm_base_by_login(login) IN
    IF orm_user.id = 0 THEN NoUser ELSE [id |-> orm_user.id, login |-> orm_user.login]

\* AuthenticationService.get_by_id
get_by_id(user_id) ==
    IF \E u \in UserTable : u.id = user_id
    THEN LET u == CHOOSE r \in UserTable : r.id = user_id IN [id |-> u.id, login |-> u.login]
    ELSE NoUser

\* ---------------------------------------------------------------- errors
\* status = 0: a Python exception of class cls; status > 0: an HTTPException
\* whose detail carries the class and message of its cause
NoErr == [status |-> 0, cls |-> "", msg |-> ""]
Raise(cls, msg) == [status |-> 0, cls |-> cls, msg |-> msg]
\* get_auth_error(status_code, err_msg) built from a caught exception
get_auth_error(status_code, err) == [status |-> status_code, cls |-> err.cls, msg |-> err.msg]

\* subclasses of jwt.InvalidTokenError among the exceptions of the model
InvalidTokenErrorClasses ==
    { "InvalidTokenError", "InvalidIssuerError", "ExpiredSignatureError", "InvalidSignatureError" }

\* ------------------------------------------------------ subject and coder
\* UserSubject.model_dump_json / model_validate_json: the subject travels in
\* the token as a JSON string, here the tuple of its fields
model_dump_json(subject) == <<subject.id, subject.login>>
model_validate_json(json) == [id |-> json[1], login |-> json[2]]

\* str(subject.id): the store key of a subject
str(id) == IF id = 1 THEN "1" ELSE IF id = 2 THEN "2" ELSE "0"
SubjectKeys == { str(i) : i \in UserIds }

\* the signing secret the builder resolved in init()
secret_key == "secret-1"

NoClaims == [sub |-> <<0, "">>, iat |-> 0, exp |-> 0]
\* "no token": None from a factory, nil from the store
NoData == [claims |-> NoClaims, sig |-> ""]

\* JwtTokenCoder.encode: the claims signed with the key
JwtEncode(subject_claims, key) == [claims |-> subject_claims, sig |-> key]

\* JwtTokenCoder.decode (PyJWT): signature check, then the exp check.  The
\* repository pins no PyJWT release: from 2.5 on a token is rejected in the
\* very second of its exp (exp <= now), before that only after it (exp < now)
JwtDecode(encode_token, key, t) ==
    IF encode_token.sig # key
    THEN [err |-> Raise("InvalidSignatureError", "Signature verification failed"), claims |-> NoClaims]
    ELSE IF (IF exp_second_rejected THEN encode_token.claims.exp <= t ELSE encode_token.claims.exp < t)
    THEN [err |-> Raise("ExpiredSignatureError", "Signature has expired"), claims |-> NoClaims]
    ELSE [err |-> NoErr, claims |-> encode_token.claims]

\* JwtTokenBuilder.encode / decode / build of a builder b (its fields).
\* build: iat and exp come from two readings of the clock, each truncated
\* to a second; skew is 1 when a second boundary lies between them
builder_encode(b, subject_claims) == JwtEncode(subject_claims, b._secret_key)
builder_decode(b, encode_token, t) == JwtDecode(encode_token, b._secret_key, t)

\* mutant: a build whose exp leaves the lifetime out
builder_build_no_lifetime(b, subject, expire_delta, t, skew) ==
    builder_encode(b, [sub |-> model_dump_json(subject), iat |-> t, exp |-> t + skew])

builder_build(b, subject, expire_delta, t, skew) ==
    builder_encode(b, [sub |-> model_dump_json(subject), iat |-> t, exp |-> t + expire_delta + skew])

\* the builder of the request flows: configured, its secret resolved
ReadyBuilder == [_algorithm |-> "HS256", _key_strength |-> 1024, _secret_key |-> secret_key]
encode(subject_claims) == builder_encode(ReadyBuilder, subject_claims)
decode(encode_token, t) == builder_decode(ReadyBuilder, encode_token, t)
build(subject, expire_delta, t, skew) == builder_build(ReadyBuilder, subject, expire_delta, t, skew)

\* ----------------------------------------------------------------- store
\* Redis: an entry is its value and the instant its TTL runs out
NoEntry == [value |-> NoData, expireAt |-> 0]
EmptyStore == [k \in SubjectKeys |-> NoEntry]

Get(st, name, t) == IF st[name].expireAt > t THEN st[name].value ELSE NoData
Setex(st, name, time, value, t) == [st EXCEPT ![name] = [value |-> value, expireAt |-> t + time]]
Delete(st, name) == [st EXCEPT ![name] = NoEntry]
\* Redis drops the entries whose TTL has run out
Expire(st, t) == [k \in DOMAIN st |-> IF st[k].expireAt > t THEN st[k] ELSE NoEntry]

\* ------------------------------------------------------------- factories
\* BaseTokenFactory.create (AccessTokenFactory): passthrough to the builder
BaseTokenFactory_create(subject, expire_delta, t, skew) ==
    build(subject, expire_delta, t, skew)

\* mutant: create without the check for an existing entry
RefreshTokenFactory_create_overwrite(st, subject, expire_delta, t, skew) ==
    LET subject_key == str(subject.id)
        jwt_token_str == build(subject, expire_delta, t, skew)
        days_in_sec == expire_delta * SecondsPerDay
    IN  [store |-> Setex(st, subject_key, days_in_sec, jwt_token_str, t), ret |-> jwt_token_str]

\* RefreshTokenFactory.create: nothing is written when the key holds data;
\* expire_delta is a timedelta, so "expire_delta * 24 * 60 * 60" is again a
\* timedelta and setex takes its total number of seconds as the TTL
RefreshTokenFactory_create(st, subject, expire_delta, t, skew) ==
    LET subject_key == str(subject.id)
        data == Get(st, subject_key, t)
        jwt_token_str == build(subject, expire_delta, t, skew)
        days_in_sec == expire_delta * SecondsPerDay
    IN  IF data = NoData
        THEN [store |-> Setex(st, subject_key, days_in_sec, jwt_token_str, t), ret |-> jwt_token_str]
        ELSE [store |-> st, ret |-> NoData]

\* RefreshTokenFactory.create as its two store calls, for callers that
\* run side by side: the get() of the check, and the setex() of the token
\* the caller built in between
create_get(st, subject, t) == Get(st, str(subject.id), t)

\* mutant: a write that leaves an entry written in the meantime (SET NX)
create_setex_nx(st, subject, expire_delta, jwt_token_str, t) ==
    IF Get(st, str(subject.id), t) = NoData
    THEN Setex(st, str(subject.id), expire_delta * SecondsPerDay, jwt_token_str, t)
    ELSE st

create_setex(st, subject, expire_delta, jwt_token_str, t) ==
    Setex(st, str(subject.id), expire_delta * SecondsPerDay, jwt_token_str, t)

\* default lifetimes of the two factories
AccessDelta == timedelta_hours(access_token_lifetime_hours)
RefreshDelta == timedelta_days(refresh_token_lifetime_days)

\* --------------------------------------------------------------- helpers
\* helpers.days_between: abs of timedelta.days (floor of the day count)
days_between(d1, d2) == Abs((d2 - d1) \div SecondsPerDay)
\* helpers.seconds_between
seconds_between(d1, d2) == Abs(days_between(d1, d2) * SecondsPerDay)

\* -------------------------------------------------------------- handlers
\* mutant: the existence check that never raises
RefreshTokenValidityHandler_lenient(st, subject, t) ==
    [store |-> st, err |-> NoErr]

\* every handle() maps the store to [store, err]
RefreshTokenValidityHandler(st, subject, t) ==
    LET data == Get(st, str(subject.id), t)
        is_token_absent == (data = NoData)
    IN  IF is_token_absent
        THEN [store |-> st, err |-> Raise("InvalidIssuerError", "token is absent")]
        ELSE [store |-> st, err |-> NoErr]

\* mutant: the expiry check that still accepts a token in the second of
\* its exp
RefreshTokenExpirationValidityHandler_nonstrict(st, subject, t) ==
    LET data == Get(st, str(subject.id), t)
        dec == decode(data, t)
        is_refresh_token_expired == IF data # NoData THEN dec.claims.exp >= t ELSE FALSE
    IN  IF data # NoData /\ dec.err # NoErr
        THEN [store |-> st, err |-> dec.err]
        ELSE IF ~is_refresh_token_expired
        THEN [store |-> st, err |-> Raise("InvalidTokenError", "Token Pair is expired")]
        ELSE [store |-> st, err |-> NoErr]

RefreshTokenExpirationValidityHandler(st, subject, t) ==
    LET data == Get(st, str(subject.id), t)
        dec == decode(data, t)
        \* the flag is named "expired" but holds exp > now
        is_refresh_token_expired == IF data # NoData THEN dec.claims.exp > t ELSE FALSE
        err_msg1 == IF data # NoData THEN "" ELSE "token is absent"
        err_msg == IF ~is_refresh_token_expired THEN "Token Pair is expired" ELSE err_msg1
    IN  IF data # NoData /\ dec.err # NoErr
        THEN [store |-> st, err |-> dec.err]
        ELSE IF err_msg # ""
        THEN [store |-> st, err |-> Raise("InvalidTokenError", err_msg)]
        ELSE [store |-> st, err |-> NoErr]

\* AccessTokenExpirationValidityHandler.handle: decode the Access Token
\* passed in, then compare its exp with the clock (whole seconds)
AccessTokenExpirationValidityHandler(access_token, t) ==
    LET dec == decode(access_token, t)
        is_token_expired == dec.claims.exp < t
    IN  IF dec.err # NoErr THEN dec.err
        ELSE IF is_token_expired THEN Raise("InvalidTokenError", "Access token is out of date")
        ELSE NoErr

\* mutant: the revoke that deletes nothing
RevokeRefreshTokenHandler_noop(st, subject, t) ==
    [store |-> st, err |-> NoErr]

RevokeRefreshTokenHandler(st, subject, t) ==
    [store |-> Delete(st, str(subject.id)), err |-> NoErr]

\* mutant: a prolongation that stores a token built anew
ProlongRefreshTokenHandler_reissue(st, subject, t) ==
    IF Get(st, str(subject.id), t) = NoData
    THEN [store |-> st, err |-> Raise("InvalidTokenError", "user has no Refresh token")]
    ELSE [store |-> Setex(st, str(subject.id), RefreshDelta * SecondsPerDay, build(subject, RefreshDelta, t, 0), t),
          err |-> NoErr]

\* mutant: a prolongation that stores a token built anew, whatever
\* G_JWT_SETTINGS.refresh_token_lifetime_days is
ProlongRefreshTokenHandler_rotate(st, subject, t, lifetime_days) ==
    ProlongRefreshTokenHandler_reissue(st, subject, t)

\* ProlongRefreshTokenHandler.handle under the setting
\* G_JWT_SETTINGS.refresh_token_lifetime_days = lifetime_days
ProlongRefreshTokenHandler_configured(st, subject, t, lifetime_days) ==
    LET subject_key == str(subject.id)
        data == Get(st, subject_key, t)
        dec == decode(data, t)
        subject_claims == dec.claims
        new_exp_date == subject_claims.exp + timedelta_days(lifetime_days)
        iat_date == subject_claims.iat
        seconds_to_expire == seconds_between(iat_date, new_exp_date)
    IN  IF data = NoData
        THEN [store |-> st, err |-> Raise("InvalidTokenError", "user has no Refresh token")]
        ELSE IF dec.err # NoErr
        THEN [store |-> st, err |-> dec.err]
        ELSE IF seconds_to_expire < 0
        THEN [store |-> st, err |-> Raise("InvalidIssuerError", "days_in_sec < 0")]
        ELSE IF seconds_to_expire = 0
        THEN [store |-> st, err |-> Raise("ResponseError", "invalid expire time in setex")]
        ELSE [store |-> Setex(st, subject_key, seconds_to_expire, encode(subject_claims), t),
              err |-> NoErr]

\* ProlongRefreshTokenHandler.handle as the service is configured
ProlongRefreshTokenHandler(st, subject, t) ==
    ProlongRefreshTokenHandler_configured(st, subject, t, refresh_token_lifetime_days)

handle(h, st, subject, t) ==
    CASE h = "RefreshTokenValidityHandler" -> RefreshTokenValidityHandler(st, subject, t)
      [] h = "RefreshTokenExpirationValidityHandler" -> RefreshTokenExpirationValidityHandler(st, subject, t)
      [] h = "RevokeRefreshTokenHandler" -> RevokeRefreshTokenHandler(st, subject, t)
      [] h = "ProlongRefreshTokenHandler" -> ProlongRefreshTokenHandler(st, subject, t)

\* mutant: a walk that calls every handler of the chain and raises the first
\* exception at the end
RECURSIVE process_all_from(_, _, _, _, _, _)
process_all_from(chain, st, subject, t, ran, err) ==
    IF chain = <<>>
    THEN [store |-> st, err |-> err, ran |-> ran]
    ELSE LET r == handle(Head(chain), st, subject, t) IN
         process_all_from(Tail(chain), r.store, subject, t, Append(ran, Head(chain)),
                          IF err = NoErr THEN r.err ELSE err)

process_all(chain, st, subject, t) == process_all_from(chain, st, subject, t, <<>>, NoErr)

\* BaseHandler.process: the handlers of the chain in link order; the first
\* exception ends the walk and is raised again.  ran lists the handlers
\* whose handle() was called.
RECURSIVE process_from(_, _, _, _, _)
process_from(chain, st, subject, t, ran) ==
    IF chain = <<>>
    THEN [store |-> st, err |-> NoErr, ran |-> ran]
    ELSE LET r == handle(Head(chain), st, subject, t) IN
         IF r.err # NoErr
         THEN [store |-> r.store, err |-> r.err, ran |-> Append(ran, Head(chain))]
         ELSE process_from(Tail(chain), r.store, subject, t, Append(ran, Head(chain)))

process(chain, st, subject, t) == process_from(chain, st, subject, t, <<>>)

\* ------------------------------------------------- AuthenticationService
\* every flow maps the store to [store, err, ret, rt, ran]: ret is the Access
\* Token handed back, rt what RefreshTokenFactory.create returned, ran the
\* handlers that were called
UserSubject_validate(user_dto) == [id |-> user_dto.id, login |-> user_dto.login]

\* mutant: the two handlers linked the other way round
RevokeThenValidate == << "RevokeRefreshTokenHandler", "RefreshTokenValidityHandler" >>

\* the chain of refresh and logout
ValidateThenRevoke == << "RefreshTokenValidityHandler", "RevokeRefreshTokenHandler" >>
ExpirationThenProlong == << "RefreshTokenExpirationValidityHandler", "ProlongRefreshTokenHandler" >>

\* mutant: a login that issues the Access Token without creating the
\* Refresh Token
authorize_without_refresh(st, login, password, t, skew_r, skew_a) ==
    LET user_dto == get_by_login(login)
        user_subject == UserSubject_validate(user_dto)
    IN  IF ~check_password(login, password)
        THEN [store |-> st, ret |-> NoData, rt |-> NoData, ran |-> <<>>,
              err |-> [status |-> 403, cls |-> "HTTPException", msg |-> "Invalid password or login name passed"]]
        ELSE [store |-> st, rt |-> NoData, ran |-> <<>>, err |-> NoErr,
              ret |-> BaseTokenFactory_create(user_subject, AccessDelta, t, skew_a)]

\* mutant: a login that looks the user up before it checks the password
authorize_lookup_first(st, login, password, t, skew_r, skew_a) ==
    LET user_dto == get_by_login(login)
        user_subject == UserSubject_validate(user_dto)
        created == RefreshTokenFactory_create(st, user_subject, RefreshDelta, t, skew_r)
    IN  IF user_dto = NoUser
        THEN [store |-> st, ret |-> NoData, rt |-> NoData, ran |-> <<>>,
              err |-> [status |-> 400, cls |-> "HTTPException", msg |-> "no user found"]]
        ELSE IF ~check_password(login, password)
        THEN [store |-> st, ret |-> NoData, rt |-> NoData, ran |-> <<>>,
              err |-> [status |-> 403, cls |-> "HTTPException", msg |-> "Invalid password or login name passed"]]
        ELSE [store |-> created.store, rt |-> created.ret, ran |-> <<>>, err |-> NoErr,
              ret |-> BaseTokenFactory_create(user_subject, AccessDelta, t, skew_a)]

\* AuthenticationService.authorize (the login history record is written
\* between the two creates and touches nothing of the model)
authorize(st, login, password, t, skew_r, skew_a) ==
    LET user_dto == get_by_login(login)
        user_subject == UserSubject_validate(user_dto)
        created == RefreshTokenFactory_create(st, user_subject, RefreshDelta, t, skew_r)
    IN  IF ~check_password(login, password)
        THEN [store |-> st, ret |-> NoData, rt |-> NoData, ran |-> <<>>,
              err |-> [status |-> 403, cls |-> "HTTPException", msg |-> "Invalid password or login name passed"]]
        ELSE IF user_dto = NoUser
        THEN [store |-> st, ret |-> NoData, rt |-> NoData, ran |-> <<>>,
              err |-> [status |-> 400, cls |-> "HTTPException", msg |-> "no user found"]]
        ELSE [store |-> created.store, rt |-> created.ret, ran |-> <<>>, err |-> NoErr,
              ret |-> BaseTokenFactory_create(user_subject, AccessDelta, t, skew_a)]

\* mutant: a rotation that revokes and does not create
refresh_without_create(st, current_user_dto, t, skew_r, skew_a) ==
    LET user_subject == UserSubject_validate(current_user_dto)
        chain == process(ValidateThenRevoke, st, user_subject, t)
    IN  IF chain.err # NoErr
        THEN [store |-> chain.store, ret |-> NoData, rt |-> NoData, ran |-> chain.ran,
              err |-> get_auth_error(500, chain.err)]
        ELSE [store |-> chain.store, rt |-> NoData, ran |-> chain.ran, err |-> NoErr,
              ret |-> BaseTokenFactory_create(user_subject, AccessDelta, t, skew_a)]

\* AuthenticationService.refresh: check and revoke, then create; every
\* exception leaves as HTTP 500
refresh(st, current_user_dto, t, skew_r, skew_a) ==
    LET user_subject == UserSubject_validate(current_user_dto)
        chain == process(ValidateThenRevoke, st, user_subject, t)
        created == RefreshTokenFactory_create(chain.store, user_subject, RefreshDelta, t, skew_r)
    IN  IF chain.err # NoErr
        THEN [store |-> chain.store, ret |-> NoData, rt |-> NoData, ran |-> chain.ran,
              err |-> get_auth_error(500, chain.err)]
        ELSE [store |-> created.store, rt |-> created.ret, ran |-> chain.ran, err |-> NoErr,
              ret |-> BaseTokenFactory_create(user_subject, AccessDelta, t, skew_a)]

\* AuthenticationService.prolongToken: the Access Token is built first, the
\* chain's exception is raised again as it is
prolongToken(st, current_user_dto, t, skew_a) ==
    LET user_subject == UserSubject_validate(current_user_dto)
        encode_token == BaseTokenFactory_create(user_subject, AccessDelta, t, skew_a)
        chain == process(ExpirationThenProlong, st, user_subject, t)
    IN  IF chain.err # NoErr
        THEN [store |-> chain.store, ret |-> NoData, rt |-> NoData, ran |-> chain.ran, err |-> chain.err]
        ELSE [store |-> chain.store, ret |-> encode_token, rt |-> NoData, ran |-> chain.ran, err |-> NoErr]

\* AuthenticationService.logout: check and revoke; every exception leaves
\* as HTTP 400
logout(st, current_user_dto, t) ==
    LET user_subject == UserSubject_validate(current_user_dto)
        chain == process(ValidateThenRevoke, st, user_subject, t)
    IN  IF chain.err # NoErr
        THEN [store |-> chain.store, ret |-> NoData, rt |-> NoData, ran |-> chain.ran,
              err |-> get_auth_error(400, chain.err)]
        ELSE [store |-> chain.store, ret |-> NoData, rt |-> NoData, ran |-> chain.ran, err |-> NoErr]

\* mutant: an authenticated request that does not look for the Refresh Token
service_get_current_user_unchecked(st, encoded_token, t) ==
    LET payload == decode(encoded_token, t)
        user_subject == model_validate_json(payload.claims.sub)
        user_dto == get_by_id(user_subject.id)
    IN  IF payload.err # NoErr
        THEN [err |-> payload.err, user |-> NoUser, ran |-> <<>>]
        ELSE [err |-> NoErr, user |-> user_dto, ran |-> <<>>]

\* AuthenticationService.get_current_user: decode the Access Token, check
\* that the subject has a Refresh Token, load the user
service_get_current_user(st, encoded_token, t) ==
    LET payload == decode(encoded_token, t)
        user_subject == model_validate_json(payload.claims.sub)
        chain == process(<< "RefreshTokenValidityHandler" >>, st, user_subject, t)
        user_dto == get_by_id(user_subject.id)
    IN  IF payload.err # NoErr
        THEN [err |-> payload.err, user |-> NoUser, ran |-> <<>>]
        ELSE IF chain.err # NoErr
        THEN [err |-> chain.err, user |-> NoUser, ran |-> chain.ran]
        ELSE IF user_dto = NoUser
        THEN [err |-> [status |-> 401, cls |-> "HTTPException", msg |-> "Could not validate token"],
              user |-> NoUser, ran |-> chain.ran]
        ELSE [err |-> NoErr, user |-> user_dto, ran |-> chain.ran]

\* dependencies.get_current_user: an InvalidTokenError becomes the 401
\* authentication error, the decorator keeps an HTTPException's status and
\* turns anything else into 500
get_current_user(st, encoded_token, t) ==
    LET r == service_get_current_user(st, encoded_token, t) IN
    IF r.err = NoErr THEN r
    ELSE IF r.err.cls \in InvalidTokenErrorClasses
    THEN [r EXCEPT !.err = get_auth_error(401, r.err)]
    ELSE IF r.err.status # 0 THEN r
    ELSE [r EXCEPT !.err = get_auth_error(500, r.err)]

\* ---------------------------------------------------------- token builder
\* JwtTokenBuilder.SUPPORT_SECRET_KEY_ALGORITHM_DICT
SUPPORT_SECRET_KEY_ALGORITHM_DICT ==
    [a \in {"HS256", "RS256"} |-> [strength |-> IF a = "HS256" THEN 1024 ELSE 2048]]

\* JWT_ALGORITHM and JWT_SECRET_KEY_STRENGTH as the environment may give them
Algorithms == {"HS256", "RS256", "ES256"}
Strengths == {512, 1024, 2048, 4096}
\* str(getrandbits(n)): the values a generated secret may take
Secrets == {"secret-1", "secret-2"}

\* JwtTokenBuilder.__init__: None is "" for a string and 0 for a number
NewBuilder == [_algorithm |-> "", _key_strength |-> 0, _secret_key |-> ""]

\* the setters map a builder to [builder, err]
set_algorithm(b, algorithm) ==
    IF algorithm \notin DOMAIN SUPPORT_SECRET_KEY_ALGORITHM_DICT
    THEN [builder |-> b, err |-> Raise("Exception", "Unsupported encoding algorithm")]
    ELSE [builder |-> [b EXCEPT !._algorithm = algorithm], err |-> NoErr]

set_secret_key_strength(b, secret_key_strength) ==
    IF b._algorithm = ""
    THEN [builder |-> b, err |-> Raise("Exception", "Algorithm is not set")]
    ELSE LET required_key_strength == SUPPORT_SECRET_KEY_ALGORITHM_DICT[b._algorithm].strength IN
         IF secret_key_strength > required_key_strength
         THEN [builder |-> b, err |-> Raise("Exception", "Secret key strength must be not less than")]
         ELSE [builder |-> [b EXCEPT !._key_strength = secret_key_strength], err |-> NoErr]

\* mutant: an init that reads the store and generates a secret all the same
init_get_regenerate(b, data) ==
    [builder |-> b, found |-> FALSE]

\* JwtTokenBuilder.init, up to the answer of get(): data found is adopted
init_get(b, data) ==
    IF data # ""
    THEN [builder |-> [b EXCEPT !._secret_key = data], found |-> TRUE]
    ELSE [builder |-> b, found |-> FALSE]

\* JwtTokenBuilder.init, from the answer "absent" on: the generated secret is
\* kept and written under the secret key header (set, no TTL)
init_set(b, generated) ==
    [builder |-> [b EXCEPT !._secret_key = generated], data |-> generated]

\* core.auth.decode_token: decode with the secret read from the store; None
\* (NoClaims) for every exception
decode_token(access_token, data, t) ==
    LET dec == JwtDecode(access_token, data, t) IN
    IF data = "" \/ dec.err # NoErr THEN NoClaims ELSE dec.claims

\* ------------------------------------------------ start of the token nodes
\* a node is a process that wires its factories at startup: pc is its place
\* in BaseTokenFactory.init, arg the strength it passed, err what was raised
NoNode == [builder |-> NewBuilder, pc |-> "new", arg |-> 0, err |-> NoErr]
Nodes == {"n1", "n2"}
\* process restarts over all nodes
MaxRestarts == 1

\* the value of a variable in a specification that does not use it
Unused == "unused"

builderVars == << nodes, secret_store, overlapped, restarts >>
BuilderIdle ==
    /\ nodes = [n \in Nodes |-> NoNode]
    /\ secret_store = ""
    /\ overlapped = FALSE
    /\ restarts = 0

BuilderUnused ==
    nodes = Unused /\ secret_store = Unused /\ overlapped = Unused /\ restarts = Unused

\* ----------------------------------------------- checks of a single token
\* issued: the token with the inputs of its build; checked: what a decode or
\* a handler answered at time at, arg the lifetime setting it ran under and
\* pre the store it found
NoIssue == [token |-> NoData, user |-> 0, lifetime |-> 0, at |-> 0]
NoCheck == [op |-> "none", at |-> 0, err |-> NoErr, claims |-> NoClaims, arg |-> 0, pre |-> EmptyStore]
coderVars == << issued, checked >>
CoderIdle == issued = NoIssue /\ checked = NoCheck
CoderUnused == issued = Unused /\ checked = Unused

\* ------------------------------------------------------- concurrent calls
\* data is what the call's get() answered, token what it built, ret what it
\* returned
NoProc ==
    [op |-> "none", pc |-> "idle", data |-> NoData, token |-> NoData, wrote |-> FALSE,
     ret |-> NoData, err |-> NoErr]
Procs == {"w1", "w2"}
raceVars == << procs >>
RaceIdle == procs = [p \in Procs |-> NoProc]
RaceUnused == procs = Unused

\* -------------------------------------------------------------- SSO users
\* no row of the users table
NoRow == [id |-> 0, login |-> "", password |-> << >>, provider |-> "", sso_id |-> ""]
NoSsoCall ==
    [op |-> "none", provider |-> "", sso_id |-> "", known |-> FALSE, password |-> "",
     err |-> NoErr, ret |-> NoData]
ssoVars == << users, sso_last >>
SsoIdle == users = {} /\ sso_last = NoSsoCall
SsoUnused == users = Unused /\ sso_last = Unused

\* ------------------------------------------------------------ email worker
\* the recipients of the notification being processed
MailUsers == {"u1", "u2", "u3"}
NoSending == [todo |-> MailUsers, user |-> "", pc |-> "idle", num_tries |-> 0, status |-> ""]
mailVars == << notification_status, accepted, sending >>
\* process_message has set every recipient's notification to PROCESSING
MailIdle ==
    /\ notification_status = [u \in MailUsers |-> "processing"]
    /\ accepted = {}
    /\ sending = NoSending
MailUnused == notification_status = Unused /\ accepted = Unused /\ sending = Unused

\* ------------------------------------------------------------- websockets
WsUserIds == {"a", "b"}
WebSockets == {"ws1", "ws2"}
\* the empty dict
NoConnections == [u \in {} |-> << >>]
wsVars == << active_connections, ws_count, ws_last >>
WsIdle ==
    /\ active_connections = NoConnections
    /\ ws_count = [u \in WsUserIds |-> [w \in WebSockets |-> 0]]
    /\ ws_last = [op |-> "none", user_id |-> "", websocket |-> "", pre |-> NoConnections]
WsUnused == active_connections = Unused /\ ws_count = Unused /\ ws_last = Unused

\* the three specifications beside the token lifecycle
siblingVars == << ssoVars, mailVars, wsVars >>
SiblingsUnused == SsoUnused /\ MailUnused /\ WsUnused

\* ---------------------------------------------------------- request flows
\* the variables of the request flows
flowVars == << held, logged_out, last >>
vars == << now, store, flowVars, exp_second_rejected, builderVars, coderVars, raceVars, siblingVars >>
\* what the request flows leave alone
besideFlows == << exp_second_rejected, builderVars, coderVars, raceVars, siblingVars >>

\* seconds that pass between the two clock readings of build() in the
\* request flows
Skew == 0

NoRequest ==
    [op |-> "none", user |-> 0, login |-> "", password |-> "",
     at |-> 0, pre |-> NoEntry, wrote |-> FALSE, ret |-> NoData, rt |-> NoData, ran |-> <<>>, err |-> NoErr]

\* the record of a request of user u that took st to the outcome r
Served(op, u, st, r) ==
    [NoRequest EXCEPT !.op = op, !.user = u, !.at = now,
                      !.pre = IF u \in UserIds THEN st[str(u)] ELSE NoEntry,
                      !.wrote = (r.store # st),
                      !.ret = r.ret, !.rt = r.rt, !.ran = r.ran, !.err = r.err]

ClientIdle ==
    /\ held = [u \in UserIds |-> NoData]
    /\ logged_out = [u \in UserIds |-> FALSE]
    /\ last = NoRequest

ClientUnused == held = Unused /\ logged_out = Unused /\ last = Unused

\* the factories are wired, nothing is stored; the flows run on a current
\* PyJWT
Init ==
    /\ now = 0
    /\ store = EmptyStore
    /\ ClientIdle
    /\ exp_second_rejected = TRUE
    /\ BuilderUnused /\ CoderUnused /\ RaceUnused /\ SiblingsUnused

\* the client of user u receives token: it keeps the token it has or takes
\* the new one
Receive(u, token) ==
    IF token = NoData THEN UNCHANGED held
    ELSE \/ held' = [held EXCEPT ![u] = token]
         \/ held[u] # NoData /\ UNCHANGED held

Tick ==
    /\ now < MaxTime
    /\ now' = now + 1
    /\ store' = Expire(store, now + 1)
    /\ last' = NoRequest
    /\ UNCHANGED << held, logged_out, besideFlows >>

Authorize ==
    \E login \in Logins, password \in Passwords :
        LET r == authorize(store, login, password, now, Skew, Skew)
            u == get_by_login(login).id
        IN  /\ store' = r.store
            /\ last' = [Served("authorize", u, store, r) EXCEPT !.login = login, !.password = password]
            /\ IF u \in UserIds THEN Receive(u, r.ret) ELSE UNCHANGED held
            /\ logged_out' = IF r.err = NoErr THEN [logged_out EXCEPT ![u] = FALSE] ELSE logged_out
            /\ UNCHANGED << now, besideFlows >>

Refresh ==
    \E u \in UserIds :
        LET r == refresh(store, get_by_id(u), now, Skew, Skew) IN
        /\ store' = r.store
        /\ last' = Served("refresh", u, store, r)
        /\ Receive(u, r.ret)
        /\ UNCHANGED << now, logged_out, besideFlows >>

ProlongToken ==
    \E u \in UserIds :
        LET r == prolongToken(store, get_by_id(u), now, Skew) IN
        /\ store' = r.store
        /\ last' = Served("prolongToken", u, store, r)
        /\ Receive(u, r.ret)
        /\ UNCHANGED << now, logged_out, besideFlows >>

Logout ==
    \E u \in UserIds :
        LET r == logout(store, get_by_id(u), now) IN
        /\ store' = r.store
        /\ last' = Served("logout", u, store, r)
        /\ logged_out' = IF r.err = NoErr THEN [logged_out EXCEPT ![u] = TRUE] ELSE logged_out
        /\ UNCHANGED << now, held, besideFlows >>

\* an authenticated request of user u's client, with the token it holds
GetCurrentUser ==
    \E u \in UserIds :
        /\ held[u] # NoData
        /\ LET r == get_current_user(store, held[u], now) IN
           last' = Served("get_current_user", u, store,
                          [store |-> store, ret |-> NoData, rt |-> NoData, ran |-> r.ran, err |-> r.err])
        /\ UNCHANGED << now, store, held, logged_out, besideFlows >>

Next == Tick \/ Authorize \/ Refresh \/ ProlongToken \/ Logout \/ GetCurrentUser

Spec == Init /\ [][Next]_vars

\* ===================================================== startup of the nodes
besideBuilder == << now, store, flowVars, exp_second_rejected, coderVars, raceVars, siblingVars >>

BuilderInit ==
    /\ BuilderIdle
    /\ now = 0
    /\ store = EmptyStore
    /\ exp_second_rejected = TRUE
    /\ ClientUnused /\ CoderUnused /\ RaceUnused /\ SiblingsUnused

\* BaseTokenFactory.init, first link: set_algorithm(G_JWT_SETTINGS.alogrithm)
SetAlgorithm ==
    \E n \in Nodes, algorithm \in Algorithms :
        /\ nodes[n].pc = "new"
        /\ LET r == set_algorithm(nodes[n].builder, algorithm) IN
           nodes' = [nodes EXCEPT ![n] =
                        [@ EXCEPT !.builder = r.builder, !.err = r.err,
                                  !.pc = IF r.err = NoErr THEN "algorithm_set" ELSE "failed"]]
        /\ UNCHANGED << secret_store, overlapped, restarts, besideBuilder >>

\* second link: set_secret_key_strength(G_JWT_SETTINGS.secret_key_strength)
SetSecretKeyStrength ==
    \E n \in Nodes, secret_key_strength \in Strengths :
        /\ nodes[n].pc = "algorithm_set"
        /\ LET r == set_secret_key_strength(nodes[n].builder, secret_key_strength) IN
           nodes' = [nodes EXCEPT ![n] =
                        [@ EXCEPT !.builder = r.builder, !.err = r.err, !.arg = secret_key_strength,
                                  !.pc = IF r.err = NoErr THEN "configured" ELSE "failed"]]
        /\ UNCHANGED << secret_store, overlapped, restarts, besideBuilder >>

\* init(): the get() of the secret and what follows without a further await
InitGet ==
    \E n \in Nodes :
        /\ nodes[n].pc = "configured"
        /\ LET r == init_get(nodes[n].builder, secret_store) IN
           nodes' = [nodes EXCEPT ![n] =
                        [@ EXCEPT !.builder = r.builder,
                                  !.pc = IF r.found THEN "ready" ELSE "absent"]]
        /\ overlapped' = (overlapped \/ \E m \in Nodes \ {n} : nodes[m].pc = "absent")
        /\ UNCHANGED << secret_store, restarts, besideBuilder >>

\* init(): the secret is generated and set() writes it
InitSet ==
    \E n \in Nodes, generated \in Secrets :
        /\ nodes[n].pc = "absent"
        /\ LET r == init_set(nodes[n].builder, generated) IN
           /\ nodes' = [nodes EXCEPT ![n] = [@ EXCEPT !.builder = r.builder, !.pc = "ready"]]
           /\ secret_store' = r.data
        /\ UNCHANGED << overlapped, restarts, besideBuilder >>

\* the process of a node ends and starts again with a new builder
Restart ==
    \E n \in Nodes :
        /\ restarts < MaxRestarts
        /\ nodes[n].pc # "new"
        /\ nodes' = [nodes EXCEPT ![n] = NoNode]
        /\ restarts' = restarts + 1
        /\ UNCHANGED << secret_store, overlapped, besideBuilder >>

BuilderNext == SetAlgorithm \/ SetSecretKeyStrength \/ InitGet \/ InitSet \/ Restart

BuilderSpec == BuilderInit /\ [][BuilderNext]_vars

\* ================================================ calls that run side by side
\* Two workers serve calls for one subject; a call is a sequence of steps,
\* one per store call, and the steps of the two calls interleave freely.
besideRace == << flowVars, exp_second_rejected, builderVars, coderVars, siblingVars >>

RaceSubject == UserSubject_validate(get_by_id(1))
RaceKey == str(RaceSubject.id)

\* the subject has no Refresh Token, or the one a login at time 0 created
RaceInit ==
    /\ now = 0
    /\ store \in { EmptyStore, RefreshTokenFactory_create(EmptyStore, RaceSubject, RefreshDelta, 0, Skew).store }
    /\ RaceIdle
    /\ exp_second_rejected = TRUE
    /\ ClientUnused /\ BuilderUnused /\ CoderUnused /\ SiblingsUnused

Step(p, rec) == procs' = [procs EXCEPT ![p] = rec]

RaceTick ==
    /\ now < MaxTime
    /\ now' = now + 1
    /\ store' = Expire(store, now + 1)
    /\ UNCHANGED << procs, besideRace >>

\* a worker takes a call: RefreshTokenFactory.create, refresh or logout
Start ==
    \E p \in Procs, op \in {"create", "refresh", "logout"} :
        /\ procs[p].pc = "idle"
        /\ Step(p, [procs[p] EXCEPT !.op = op, !.pc = IF op = "create" THEN "create_get" ELSE "validity"])
        /\ UNCHANGED << now, store, besideRace >>

\* refresh / logout: RefreshTokenValidityHandler.handle
StepValidity ==
    \E p \in Procs :
        /\ procs[p].pc = "validity"
        /\ LET r == RefreshTokenValidityHandler(store, RaceSubject, now) IN
           Step(p, IF r.err # NoErr
                   THEN [procs[p] EXCEPT !.pc = "done",
                            !.err = get_auth_error(IF procs[p].op = "refresh" THEN 500 ELSE 400, r.err)]
                   ELSE [procs[p] EXCEPT !.pc = "revoke"])
        /\ UNCHANGED << now, store, besideRace >>

\* refresh / logout: RevokeRefreshTokenHandler.handle; logout returns
StepRevoke ==
    \E p \in Procs :
        /\ procs[p].pc = "revoke"
        /\ store' = RevokeRefreshTokenHandler(store, RaceSubject, now).store
        /\ Step(p, [procs[p] EXCEPT !.pc = IF procs[p].op = "refresh" THEN "create_get" ELSE "done"])
        /\ UNCHANGED << now, besideRace >>

\* create: the get(); with data create returns None, and refresh goes on to
\* build the Access Token
StepCreateGet ==
    \E p \in Procs :
        /\ procs[p].pc = "create_get"
        /\ LET data == create_get(store, RaceSubject, now) IN
           Step(p, IF data = NoData
                   THEN [procs[p] EXCEPT !.pc = "create_build"]
                   ELSE [procs[p] EXCEPT !.pc = "done", !.data = data,
                            !.ret = IF procs[p].op = "refresh"
                                    THEN BaseTokenFactory_create(RaceSubject, AccessDelta, now, Skew)
                                    ELSE NoData])
        /\ UNCHANGED << now, store, besideRace >>

\* create: the token is built
StepCreateBuild ==
    \E p \in Procs :
        /\ procs[p].pc = "create_build"
        /\ Step(p, [procs[p] EXCEPT !.pc = "create_setex",
                       !.token = build(RaceSubject, RefreshDelta, now, Skew)])
        /\ UNCHANGED << now, store, besideRace >>

\* create: the setex(); create returns the token, and refresh goes on to
\* build the Access Token
StepCreateSetex ==
    \E p \in Procs :
        /\ procs[p].pc = "create_setex"
        /\ store' = create_setex(store, RaceSubject, RefreshDelta, procs[p].token, now)
        /\ Step(p, [procs[p] EXCEPT !.pc = "done", !.wrote = TRUE,
                       !.ret = IF procs[p].op = "refresh"
                               THEN BaseTokenFactory_create(RaceSubject, AccessDelta, now, Skew)
                               ELSE procs[p].token])
        /\ UNCHANGED << now, besideRace >>

\* refresh: the call ends between the revoke and the setex of create, the
\* process killed or create raising (the store unreachable): the caller
\* gets HTTP 500 or no answer, nothing is put back
RefreshStopped ==
    \E p \in Procs :
        /\ procs[p].op = "refresh"
        /\ procs[p].pc \in {"create_get", "create_build", "create_setex"}
        /\ Step(p, [procs[p] EXCEPT !.pc = "stopped",
                       !.err = get_auth_error(500, Raise("ConnectionError", "store is unreachable"))])
        /\ UNCHANGED << now, store, besideRace >>

RaceNext ==
    \/ RaceTick \/ Start \/ StepValidity \/ StepRevoke \/ StepCreateGet \/ StepCreateBuild
    \/ StepCreateSetex \/ RefreshStopped

RaceSpec == RaceInit /\ [][RaceNext]_vars

\* ======================================================= one token in time
\* Tokens are built with any whole lifetime, kept while the clock runs, and
\* decoded or checked for expiry, on either PyJWT.
besideCoder == << flowVars, builderVars, raceVars, siblingVars >>

\* the lifetimes passed to create(), in ticks
MaxLifetime == 2
Lifetimes == 1 .. MaxLifetime
\* second boundaries between the two clock readings of one build()
ClockSkews == {0, 1}
\* the values refresh_token_lifetime_days is set to, in days: the service's
\* own, and its negative written by mistake (the setting is an int read
\* from the environment)
ConfiguredLifetimes == { 0 - refresh_token_lifetime_days, refresh_token_lifetime_days }
\* the subject whose Refresh Token is checked and prolonged
CoderSubject == UserSubject_validate(get_by_id(1))

\* the other subject is logged out, or has logged in at the start
CoderInit ==
    /\ now = 0
    /\ store \in { EmptyStore,
                   RefreshTokenFactory_create(EmptyStore, UserSubject_validate(get_by_id(2)),
                                              RefreshDelta, 0, 0).store }
    /\ exp_second_rejected \in BOOLEAN
    /\ CoderIdle
    /\ ClientUnused /\ BuilderUnused /\ RaceUnused /\ SiblingsUnused

CoderTick ==
    /\ now < MaxTime
    /\ now' = now + 1
    /\ store' = Expire(store, now + 1)
    /\ checked' = NoCheck
    /\ UNCHANGED << exp_second_rejected, issued, besideCoder >>

\* mutant: an Access Token created the way RefreshTokenFactory creates,
\* looked up in the store first and stored under the subject's key
Issue_once ==
    \E u \in UserIds, expire_delta \in Lifetimes, skew \in ClockSkews :
        LET created == RefreshTokenFactory_create(store, UserSubject_validate(get_by_id(u)),
                                                  expire_delta, now, skew) IN
        /\ issued' = [token |-> created.ret, user |-> u, lifetime |-> expire_delta, at |-> now]
        /\ store' = created.store
        /\ checked' = NoCheck
        /\ UNCHANGED << now, exp_second_rejected, besideCoder >>

\* AccessTokenFactory.create(subject, expire_delta)
Issue ==
    \E u \in UserIds, expire_delta \in Lifetimes, skew \in ClockSkews :
        /\ issued' = [token |-> BaseTokenFactory_create(UserSubject_validate(get_by_id(u)), expire_delta, now, skew),
                      user |-> u, lifetime |-> expire_delta, at |-> now]
        /\ checked' = NoCheck
        /\ UNCHANGED << now, store, exp_second_rejected, besideCoder >>

\* RefreshTokenFactory.create(subject, expire_delta)
StoreRefresh ==
    \E expire_delta \in Lifetimes, skew \in ClockSkews :
        /\ store' = RefreshTokenFactory_create(store, CoderSubject, expire_delta, now, skew).store
        /\ checked' = NoCheck
        /\ UNCHANGED << now, exp_second_rejected, issued, besideCoder >>

\* JwtTokenBuilder.decode of the issued token
Decode ==
    /\ issued # NoIssue
    /\ LET dec == decode(issued.token, now) IN
       checked' = [NoCheck EXCEPT !.op = "decode", !.at = now, !.err = dec.err, !.claims = dec.claims]
    /\ UNCHANGED << now, store, exp_second_rejected, issued, besideCoder >>

\* AccessTokenExpirationValidityHandler on the issued token
CheckAccess ==
    /\ issued # NoIssue
    /\ checked' = [NoCheck EXCEPT !.op = "access", !.at = now,
                                  !.err = AccessTokenExpirationValidityHandler(issued.token, now)]
    /\ UNCHANGED << now, store, exp_second_rejected, issued, besideCoder >>

\* RefreshTokenExpirationValidityHandler on the stored token
CheckRefresh ==
    /\ checked' = [NoCheck EXCEPT !.op = "refresh", !.at = now,
                                  !.err = RefreshTokenExpirationValidityHandler(store, CoderSubject, now).err]
    /\ UNCHANGED << now, store, exp_second_rejected, issued, besideCoder >>

\* ProlongRefreshTokenHandler on the stored token, the service running with
\* refresh_token_lifetime_days = lifetime_days
Prolong ==
    \E lifetime_days \in ConfiguredLifetimes :
        LET r == ProlongRefreshTokenHandler_configured(store, CoderSubject, now, lifetime_days) IN
        /\ store' = r.store
        /\ checked' = [NoCheck EXCEPT !.op = "prolong", !.at = now, !.err = r.err,
                                      !.arg = lifetime_days, !.pre = store]
        /\ UNCHANGED << now, exp_second_rejected, issued, besideCoder >>

CoderNext == CoderTick \/ Issue \/ StoreRefresh \/ Decode \/ CheckAccess \/ CheckRefresh \/ Prolong

CoderSpec == CoderInit /\ [][CoderNext]_vars

\* =============================================================== SSO login
\* AuthenticationService.handle_sso_user over a users table that starts
\* empty; the clock stands still.
besideSso == << now, flowVars, exp_second_rejected, builderVars, coderVars, raceVars, mailVars, wsVars >>

\* the identities the providers report
Providers == {"yandex", "vk"}
SsoIds == {"17", "42"}
\* values of secrets.token_urlsafe(32); two draws may be equal here, which
\* the 256 random bits make all but impossible
TokenUrlsafe == {"r1", "r2"}

SsoInit ==
    /\ SsoIdle
    /\ now = 0
    /\ store = EmptyStore
    /\ exp_second_rejected = TRUE
    /\ ClientUnused /\ BuilderUnused /\ CoderUnused /\ RaceUnused /\ MailUnused /\ WsUnused

\* UserDB.get_by_sso_id: the row with this provider and sso_id, or None
get_by_sso_id(tbl, provider, sso_id) ==
    IF \E row \in tbl : row.provider = provider /\ row.sso_id = sso_id
    THEN CHOOSE row \in tbl : row.provider = provider /\ row.sso_id = sso_id
    ELSE NoRow

\* UserDB.create: User.__init__ stores generate_password_hash(password); ids
\* are given out in sequence
UserDB_create(tbl, login, password, provider, sso_id) ==
    tbl \cup { [id |-> Cardinality(tbl) + 1, login |-> login,
                password |-> generate_password_hash(password),
                provider |-> provider, sso_id |-> sso_id] }

\* AuthenticationService.authorize with the users table tbl
authorize_in(tbl, st, login, password, t, skew_r, skew_a) ==
    LET orm_user == IF \E row \in tbl : row.login = login
                    THEN CHOOSE row \in tbl : row.login = login
                    ELSE NoRow
        user_subject == UserSubject_validate(orm_user)
        created == RefreshTokenFactory_create(st, user_subject, RefreshDelta, t, skew_r)
    IN  IF orm_user = NoRow \/ ~check_password_hash(orm_user.password, password)
        THEN [store |-> st, ret |-> NoData, rt |-> NoData,
              err |-> [status |-> 403, cls |-> "HTTPException", msg |-> "Invalid password or login name passed"]]
        ELSE [store |-> created.store, rt |-> created.ret, err |-> NoErr,
              ret |-> BaseTokenFactory_create(user_subject, AccessDelta, t, skew_a)]

\* AuthenticationService.handle_sso_user; password is the value
\* secrets.token_urlsafe(32) returns in the branch taken
handle_sso_user(tbl, st, provider, sso_id, password, t) ==
    LET user == get_by_sso_id(tbl, provider, sso_id)
        created_tbl == UserDB_create(tbl, provider \o "_" \o sso_id, password, provider, sso_id)
    IN  IF user = NoRow
        THEN [users |-> created_tbl,
              r |-> authorize_in(created_tbl, st, provider \o "_" \o sso_id, password, t, Skew, Skew)]
        ELSE [users |-> tbl,
              r |-> authorize_in(tbl, st, user.login, password, t, Skew, Skew)]

\* the SSO callback of an identity: a new one while the table has room
HandleSsoUser ==
    \E provider \in Providers, sso_id \in SsoIds, password \in TokenUrlsafe :
        LET known == get_by_sso_id(users, provider, sso_id) # NoRow
            h == handle_sso_user(users, store, provider, sso_id, password, now)
        IN  /\ known \/ Cardinality(users) < Cardinality(SubjectKeys)
            /\ users' = h.users
            /\ store' = h.r.store
            /\ sso_last' = [op |-> "handle_sso_user", provider |-> provider, sso_id |-> sso_id,
                            known |-> known, password |-> password, err |-> h.r.err, ret |-> h.r.ret]
            /\ UNCHANGED besideSso

SsoNext == HandleSsoUser

SsoSpec == SsoInit /\ [][SsoNext]_vars

\* ============================================================ email worker
\* EmailWorker._send_email for the recipients of one notification, one after
\* the other as process_message loops over them.  The calls awaited
\* (send_message, smtp_connect, the status update) answer or raise.
besideMail == << now, store, flowVars, exp_second_rejected, builderVars, coderVars, raceVars, ssoVars, wsVars >>

MailInit ==
    /\ MailIdle
    /\ now = 0
    /\ store = EmptyStore
    /\ exp_second_rejected = TRUE
    /\ ClientUnused /\ BuilderUnused /\ CoderUnused /\ RaceUnused /\ SsoUnused /\ WsUnused

\* the bound of `while num_tries < 2`
max_tries == 2

\* what smtp_client.send_message does: it returns, the server has closed the
\* connection, or another error (the recipient refused, a timeout)
SendOutcomes == {"ok", "SMTPServerDisconnected", "SMTPException"}

\* for user in users: _send_email(user, ...), up to num_tries = 0
SendEmail ==
    \E user \in sending.todo :
        /\ sending.pc = "idle"
        /\ sending' = [todo |-> sending.todo \ {user}, user |-> user, pc |-> "send_message",
                       num_tries |-> 0, status |-> ""]
        /\ UNCHANGED << notification_status, accepted, besideMail >>

\* the loop after a reconnect: another try while num_tries < 2, else the
\* statement after the loop, the DELIVERED update
AfterDisconnect(num_tries) ==
    IF num_tries < max_tries
    THEN [pc |-> "send_message", status |-> ""]
    ELSE [pc |-> "update_status", status |-> "delivered"]

\* await self.smtp_client.send_message(email_message), and what the loop
\* does with its outcome
SendMessage ==
    \E outcome \in SendOutcomes :
        /\ sending.pc = "send_message"
        /\ accepted' = IF outcome = "ok" THEN accepted \cup {sending.user} ELSE accepted
        /\ sending' =
              CASE outcome = "ok" ->
                     [sending EXCEPT !.pc = "update_status", !.status = "delivered"]
                [] outcome = "SMTPServerDisconnected" ->
                     [sending EXCEPT !.pc = "smtp_connect", !.num_tries = @ + 1]
                [] outcome = "SMTPException" ->
                     [sending EXCEPT !.pc = "update_status", !.status = "failed"]
        /\ UNCHANGED << notification_status, besideMail >>

\* await self.smtp_connect() in the except clause of the loop
SmtpConnect ==
    \E connected \in BOOLEAN :
        /\ sending.pc = "smtp_connect"
        /\ sending' =
              IF connected
              THEN [sending EXCEPT !.pc = AfterDisconnect(sending.num_tries).pc,
                                   !.status = AfterDisconnect(sending.num_tries).status]
              ELSE [sending EXCEPT !.pc = "update_status", !.status = "failed"]
        /\ UNCHANGED << notification_status, accepted, besideMail >>

\* _update_notification_status: the document is found and updated, or it is
\* not found (or the update raises) and a line is logged
UpdateNotificationStatus ==
    \E found \in BOOLEAN :
        /\ sending.pc = "update_status"
        /\ notification_status' =
              IF found THEN [notification_status EXCEPT ![sending.user] = sending.status]
              ELSE notification_status
        /\ sending' = [sending EXCEPT !.pc = "idle"]
        /\ UNCHANGED << accepted, besideMail >>

MailNext == SendEmail \/ SendMessage \/ SmtpConnect \/ UpdateNotificationStatus

MailSpec == MailInit /\ [][MailNext]_vars

\* ============================================================== websockets
\* WSConnectionManager of the notification API: the websocket endpoint calls
\* connect when a client's socket is accepted and disconnect when it closes;
\* both are synchronous.
besideWs == << now, store, flowVars, exp_second_rejected, builderVars, coderVars, raceVars, ssoVars, mailVars >>

\* longest list of one user id
MaxConnections == 3

WsInit ==
    /\ WsIdle
    /\ now = 0
    /\ store = EmptyStore
    /\ exp_second_rejected = TRUE
    /\ ClientUnused /\ BuilderUnused /\ CoderUnused /\ RaceUnused /\ SsoUnused /\ MailUnused

\* active_connections.get(user_id, [])
connections_get(ac, user_id) == IF user_id \in DOMAIN ac THEN ac[user_id] ELSE << >>

\* websocket in conns
listed(conns, websocket) == \E i \in 1 .. Len(conns) : conns[i] = websocket

\* list.remove: the list without the first occurrence of websocket
RECURSIVE list_remove(_, _)
list_remove(conns, websocket) ==
    IF conns = << >> THEN << >>
    ELSE IF Head(conns) = websocket THEN Tail(conns)
    ELSE << Head(conns) >> \o list_remove(Tail(conns), websocket)

\* WSConnectionManager.connect: setdefault(user_id, []).append(websocket)
connect(ac, user_id, websocket) ==
    [u \in DOMAIN ac \cup {user_id} |->
        IF u = user_id THEN Append(connections_get(ac, user_id), websocket) ELSE ac[u]]

\* mutant: a disconnect that keeps the key of a list it has emptied
disconnect_keep_key(ac, user_id, websocket) ==
    LET conns == connections_get(ac, user_id) IN
    IF listed(conns, websocket)
    THEN [ac EXCEPT ![user_id] = list_remove(conns, websocket)]
    ELSE ac

\* WSConnectionManager.disconnect: the first occurrence is removed from the
\* user's list, and the key is popped when the list is empty
disconnect(ac, user_id, websocket) ==
    LET conns == connections_get(ac, user_id)
        left == IF listed(conns, websocket) THEN list_remove(conns, websocket) ELSE conns
    IN  IF left = << >>
        THEN [u \in DOMAIN ac \ {user_id} |-> ac[u]]
        ELSE [ac EXCEPT ![user_id] = left]

Connect ==
    \E user_id \in WsUserIds, websocket \in WebSockets :
        /\ Len(connections_get(active_connections, user_id)) < MaxConnections
        /\ active_connections' = connect(active_connections, user_id, websocket)
        /\ ws_count' = [ws_count EXCEPT ![user_id][websocket] = @ + 1]
        /\ ws_last' = [op |-> "connect", user_id |-> user_id, websocket |-> websocket,
                       pre |-> active_connections]
        /\ UNCHANGED besideWs

Disconnect ==
    \E user_id \in WsUserIds, websocket \in WebSockets :
        /\ active_connections' = disconnect(active_connections, user_id, websocket)
        /\ ws_count' = IF listed(connections_get(active_connections, user_id), websocket)
                       THEN [ws_count EXCEPT ![user_id][websocket] = @ - 1]
                       ELSE ws_count
        /\ ws_last' = [op |-> "disconnect", user_id |-> user_id, websocket |-> websocket,
                       pre |-> active_connections]
        /\ UNCHANGED besideWs

WsNext == Connect \/ Disconnect

WsSpec == WsInit /\ [][WsNext]_vars

\* ================================================================ claims
\* the subject of the request served last, and its store key
LastSubject == UserSubject_validate(get_by_id(last.user))
LastKey == str(last.user)
TokenAbsent(err) == err.cls = "InvalidIssuerError" /\ err.msg = "token is absent"

\* C1: RefreshTokenFactory.create never overwrites an existing entry: a
\* create for a subject whose key already holds a token returns nothing and
\* leaves the entry (value and TTL) exactly as the earlier create wrote it.
C1_CreateNeverOverwrites ==
    (last.op = "authorize" /\ last.err = NoErr /\ last.pre # NoEntry) =>
        /\ last.rt = NoData
        /\ ~last.wrote
        /\ store[LastKey] = last.pre

\* the second create comes at a later instant than the first, so that the
\* token it would build differs from the stored one
C1_Witness ==
    /\ last.op = "authorize" /\ last.err = NoErr
    /\ last.pre # NoEntry /\ last.pre.value.claims.iat < now
    /\ store[LastKey] = last.pre

\* C2 (as claimed): after a successful refresh(subject), a
\* RefreshTokenValidityHandler run and a second refresh for that subject
\* fail with the token-absent error.
C2_ReplayFailsAfterRotation ==
    (last.op = "refresh" /\ last.err = NoErr) =>
        /\ TokenAbsent(RefreshTokenValidityHandler(store, LastSubject, now).err)
        /\ TokenAbsent(refresh(store, get_by_id(last.user), now, Skew, Skew).err)

\* C2 (amended): after a successful refresh(subject) the subject's key holds
\* the token built by that refresh, and a RefreshTokenValidityHandler run
\* and a second refresh for that subject right after it succeed.
C2_RotationLeavesLiveEntry ==
    (last.op = "refresh" /\ last.err = NoErr) =>
        /\ last.pre # NoEntry
        /\ last.rt # NoData
        /\ last.rt.claims.iat = now
        /\ Get(store, LastKey, now) = last.rt
        /\ RefreshTokenValidityHandler(store, LastSubject, now).err = NoErr
        /\ refresh(store, get_by_id(last.user), now, Skew, Skew).err = NoErr

\* a rotation that replaced an older token by a different one
C2_Witness ==
    /\ last.op = "refresh" /\ last.err = NoErr
    /\ last.pre.value.claims.iat < now
    /\ Get(store, LastKey, now) # last.pre.value
    /\ RefreshTokenValidityHandler(store, LastSubject, now).err = NoErr

\* C3: if prolongToken(subject) succeeds at time t, the subject's Refresh
\* Token is accepted by RefreshTokenExpirationValidityHandler at every time
\* before t plus the refresh lifetime (time passing, no other request).
C3_ProlongKeepsSessionAlive ==
    (last.op = "prolongToken" /\ last.err = NoErr) =>
        \A t \in now .. (now + RefreshDelta - 1) :
            RefreshTokenExpirationValidityHandler(Expire(store, t), LastSubject, t).err = NoErr

\* C4: after ProlongRefreshTokenHandler succeeded, the re-stored value
\* decodes to the same subject and to an expires_at strictly later than
\* before the prolongation.
C4_ProlongExtendsExpiry ==
    (last.op = "prolongToken" /\ last.err = NoErr) =>
        /\ decode(store[LastKey].value, now).claims.sub = decode(last.pre.value, now).claims.sub
        /\ decode(store[LastKey].value, now).claims.exp > decode(last.pre.value, now).claims.exp

\* C5: a create that found no entry stores the token under str(subject.id)
\* with a TTL of the requested lifetime in seconds, so that the entry runs
\* out at the token's embedded expires_at.
C5_TtlMirrorsExpiry ==
    (last.rt # NoData) =>
        /\ store[LastKey].value = last.rt
        /\ store[LastKey].expireAt - now = RefreshDelta
        /\ store[LastKey].expireAt = last.rt.claims.exp

\* C6: from a successful logout to the next successful login of a user,
\* every authenticated request with an Access Token of that user is
\* rejected (401); when the token is signed and unexpired, the reason is the
\* missing Refresh Token entry.
C6_RejectedAfterLogout ==
    (last.op = "get_current_user" /\ logged_out[last.user]) =>
        /\ last.err.status = 401
        /\ (decode(held[last.user], now).err = NoErr => TokenAbsent(last.err))

C6_Witness ==
    /\ last.op = "get_current_user" /\ logged_out[last.user]
    /\ decode(held[last.user], now).err = NoErr
    /\ held[last.user].claims.iat <= now
    /\ last.err.status = 401 /\ TokenAbsent(last.err)

\* C7: a refresh(subject) after a successful logout(subject), with no login
\* in between, fails on the missing token, returns no Access Token and
\* leaves the subject without an entry.
C7_RefreshAfterLogoutFails ==
    (last.op = "refresh" /\ logged_out[last.user]) =>
        /\ last.err # NoErr /\ TokenAbsent(last.err)
        /\ last.ret = NoData /\ last.rt = NoData
        /\ ~last.wrote
        /\ Get(store, LastKey, now) = NoData

C7_Witness ==
    /\ last.op = "refresh" /\ logged_out[last.user]
    /\ last.err.status = 500 /\ TokenAbsent(last.err)
    /\ store[LastKey] = NoEntry

\* C8: logout(subject) fails and writes nothing when the subject has no
\* entry; with an entry it succeeds and leaves no entry, so that a second
\* logout right after it fails.
C8_LogoutNeedsEntry ==
    (last.op = "logout") =>
        IF last.pre = NoEntry
        THEN /\ last.err # NoErr /\ last.err.status = 400
             /\ ~last.wrote
             /\ last.ran = << "RefreshTokenValidityHandler" >>
        ELSE /\ last.err = NoErr
             /\ Get(store, LastKey, now) = NoData
             /\ logout(store, get_by_id(last.user), now).err # NoErr

\* a logout that fails right after a successful one
C8_Witness ==
    /\ last.op = "logout" /\ last.err.status = 400
    /\ last.pre = NoEntry /\ logged_out[last.user]

\* C9: authorize with the correct password of an existing user returns an
\* Access Token whose subject is that user, and the store then holds a
\* Refresh Token entry under the user's id.
C9_LoginIssuesTokenPair ==
    (last.op = "authorize" /\ check_password(last.login, last.password)) =>
        /\ last.err = NoErr
        /\ last.ret # NoData
        /\ decode(last.ret, now).err = NoErr
        /\ model_validate_json(decode(last.ret, now).claims.sub).login = last.login
        /\ model_validate_json(decode(last.ret, now).claims.sub).id = get_by_login(last.login).id
        /\ Get(store, str(get_by_login(last.login).id), now) # NoData
        /\ model_validate_json(Get(store, str(get_by_login(last.login).id), now).claims.sub).login = last.login

C9_Witness ==
    /\ last.op = "authorize" /\ last.login = "alice" /\ last.password = "pw_alice"
    /\ last.err = NoErr
    /\ model_validate_json(decode(last.ret, now).claims.sub).login = "alice"
    /\ last.pre = NoEntry /\ store["1"].value = last.rt /\ last.rt # NoData

\* C10: authorize fails the same way for an unknown login and for a known
\* login with a wrong password: one error kind and status, no token, store
\* untouched.
C10_GenericLoginFailure ==
    (last.op = "authorize" /\ ~check_password(last.login, last.password)) =>
        /\ last.err = authorize(store, "mallory", "wrong", now, Skew, Skew).err
        /\ last.err.status = 403
        /\ last.ret = NoData /\ last.rt = NoData
        /\ ~last.wrote

\* a known login with a wrong password, refused like the unknown login
C10_Witness ==
    /\ last.op = "authorize" /\ last.login = "alice" /\ last.password = "wrong"
    /\ get_by_login("mallory") = NoUser
    /\ last.err = authorize(store, "mallory", "wrong", now, Skew, Skew).err
    /\ last.err.status = 403

\* the minimum strength of the algorithm node n configured
RequiredStrength(n) == SUPPORT_SECRET_KEY_ALGORITHM_DICT[nodes[n].builder._algorithm].strength

\* C11: configuring the builder (set_algorithm, then
\* set_secret_key_strength) fails whenever the strength passed is below the
\* minimum of the chosen algorithm and succeeds whenever it meets or exceeds
\* it, so a configured builder never holds a strength below the minimum.
C11_StrengthMeetsMinimum ==
    \A n \in Nodes :
        /\ (nodes[n].arg # 0) =>
              /\ (nodes[n].arg < RequiredStrength(n) => nodes[n].err # NoErr /\ nodes[n].pc = "failed")
              /\ (nodes[n].arg >= RequiredStrength(n) =>
                    nodes[n].err = NoErr /\ nodes[n].builder._key_strength = nodes[n].arg)
        /\ (nodes[n].builder._key_strength # 0) =>
              nodes[n].builder._key_strength >= RequiredStrength(n)

\* a token of user 1 as node n builds it at time 0
TokenOf(n) == builder_build(nodes[n].builder, get_by_id(1), AccessDelta, 0, 0)

\* C12: for every interleaving of the init() of two builders against a store
\* without a secret, once both have finished both hold the same secret, it
\* is the stored one, and a token built by either node decodes under the
\* other and under the stored secret.
C12_SameSecretEverywhere ==
    (\A n \in Nodes : nodes[n].pc = "ready") =>
        \A n \in Nodes, m \in Nodes :
            /\ nodes[n].builder._secret_key = nodes[m].builder._secret_key
            /\ nodes[n].builder._secret_key = secret_store
            /\ builder_decode(nodes[m].builder, TokenOf(n), 0).err = NoErr
            /\ decode_token(TokenOf(n), secret_store, 0) # NoClaims

\* C20: an init() that finds a secret stored adopts exactly that value and
\* writes nothing; as long as no two init() calls overlap, a stored secret
\* never changes again.
C20_SecretCreatedOnce ==
    [][ /\ \A n \in Nodes :
              (nodes[n].pc = "configured" /\ nodes'[n].pc \in {"ready", "absent"} /\ secret_store # "") =>
                  /\ nodes'[n].pc = "ready"
                  /\ nodes'[n].builder._secret_key = secret_store
                  /\ secret_store' = secret_store
        /\ (secret_store # "" /\ ~overlapped') => secret_store' = secret_store
      ]_vars

\* both nodes started one after the other, one of them twice, and hold the
\* stored secret
C20_Witness ==
    /\ ~overlapped /\ restarts = MaxRestarts
    /\ secret_store # ""
    /\ \A n \in Nodes : nodes[n].pc = "ready" /\ nodes[n].builder._secret_key = secret_store

\* both workers ran create, both saw no entry and both wrote
BothCreated ==
    \A p \in Procs : procs[p].op = "create" /\ procs[p].pc = "done" /\ procs[p].wrote

C14_LastOperationWins ==
    /\ [](\A r \in Procs, l \in Procs :
            (/\ procs[r].op = "refresh" /\ procs[r].pc = "done"
             /\ procs[l].op = "logout" /\ procs[l].pc = "done") =>
                /\ \/ store[RaceKey] = NoEntry
                   \/ procs[r].wrote /\ store[RaceKey].value = procs[r].token
                /\ (procs[r].err = NoErr) => (procs[r].wrote /\ procs[r].ret # NoData)
                /\ (procs[r].err # NoErr) => store[RaceKey] = NoEntry)
    /\ [][\A p \in Procs :
              /\ (procs[p].pc = "revoke" /\ procs'[p].pc # "revoke") => store'[RaceKey] = NoEntry
              /\ (procs[p].op = "refresh" /\ procs[p].pc = "create_setex" /\ procs'[p].pc = "done") =>
                    store'[RaceKey].value = procs[p].token
         ]_vars

\* logout succeeded, refresh succeeded, and the subject has the new token
C14_Witness ==
    /\ procs["w1"].op = "refresh" /\ procs["w1"].pc = "done" /\ procs["w1"].err = NoErr
    /\ procs["w2"].op = "logout" /\ procs["w2"].pc = "done" /\ procs["w2"].err = NoErr
    /\ Get(store, RaceKey, now) = procs["w1"].token
    /\ procs["w1"].token # NoData

\* C15: refresh commits no partial state: when it succeeds both handlers
\* ran, the old entry was deleted and the key holds the token built by this
\* call; when it fails before the revoke step, the store is as before, only
\* the existence check ran, and no token is returned.
C15_RefreshAllOrNothing ==
    (last.op = "refresh") =>
        IF last.err = NoErr
        THEN /\ last.ran = << "RefreshTokenValidityHandler", "RevokeRefreshTokenHandler" >>
             /\ last.pre # NoEntry
             /\ last.rt = build(LastSubject, RefreshDelta, now, Skew)
             /\ store[LastKey] = [value |-> last.rt, expireAt |-> now + RefreshDelta * SecondsPerDay]
             /\ last.ret # NoData
        ELSE /\ ~last.wrote
             /\ store[LastKey] = last.pre
             /\ last.ran = << "RefreshTokenValidityHandler" >>
             /\ last.ret = NoData /\ last.rt = NoData

\* a refresh that failed in the existence check and changed nothing
C15_Witness ==
    /\ last.op = "refresh" /\ last.err # NoErr
    /\ last.ran = << "RefreshTokenValidityHandler" >>
    /\ ~last.wrote /\ last.ret = NoData
    /\ \E k \in SubjectKeys : store[k] # NoEntry

\* the Refresh Token stored for the subject of the expiry checks
StoredToken == store[str(CoderSubject.id)].value
\* the two ways a token is refused as expired: by PyJWT, by the handler
ExpiredKind(err) ==
    \/ err.cls = "ExpiredSignatureError"
    \/ err.cls = "InvalidTokenError" /\ err.msg = "Token Pair is expired"

\* C16: RefreshTokenExpirationValidityHandler checks the stored token for a
\* strictly future expiry: with expires_at == now (or earlier) it is refused
\* as expired, with expires_at == now + 1 (or later) it is accepted.
C16_RefreshExpiryStrict ==
    (checked.op = "refresh" /\ checked.at = now /\ StoredToken # NoData) =>
        /\ (StoredToken.claims.exp <= now => ExpiredKind(checked.err))
        /\ (StoredToken.claims.exp >= now + 1 => checked.err = NoErr)

\* a stored token refused in the second of its exp by the handler's own
\* comparison
C16_Witness ==
    /\ checked.op = "refresh" /\ checked.at = now
    /\ StoredToken # NoData /\ StoredToken.claims.exp = now
    /\ ~exp_second_rejected
    /\ checked.err.cls = "InvalidTokenError" /\ checked.err.msg = "Token Pair is expired"

\* C17: AccessTokenExpirationValidityHandler applies the same strict check
\* to the Access Token passed in: it fails with an expired error when
\* expires_at == now or earlier and succeeds when expires_at == now + 1 or
\* later.
C17_AccessExpiryStrict ==
    (checked.op = "access") =>
        /\ (issued.token.claims.exp <= checked.at =>
              checked.err.cls \in {"ExpiredSignatureError", "InvalidTokenError"})
        /\ (issued.token.claims.exp >= checked.at + 1 => checked.err = NoErr)

\* C18: decode(build(subject, lifetime)) with the same builder gives claims
\* whose subject is the serialized input subject and whose expires_at is
\* within one second of issued_at + lifetime.
C18_RoundTrip ==
    (checked.op = "decode") =>
        /\ (checked.at = issued.at => checked.err = NoErr)
        /\ (checked.err = NoErr) =>
              /\ checked.claims.sub = model_dump_json(UserSubject_validate(get_by_id(issued.user)))
              /\ model_validate_json(checked.claims.sub) = UserSubject_validate(get_by_id(issued.user))
              /\ checked.claims.iat = issued.at
              /\ Abs(checked.claims.exp - (checked.claims.iat + issued.lifetime)) <= 1

\* a round trip of the second user's token whose build crossed a second
C18_Witness ==
    /\ checked.op = "decode" /\ checked.err = NoErr /\ checked.at = issued.at
    /\ issued.user = 2 /\ model_validate_json(checked.claims.sub).login = "bob"
    /\ checked.claims.exp = checked.claims.iat + issued.lifetime + 1

\* C19: a successful prolongToken leaves the subject's single entry with
\* the same subject and issued_at and an expires_at not earlier than before
\* (so over any sequence of calls it never decreases), and a second
\* successful call one second later returns a different Access Token and
\* leaves the same entry again.
C19_ProlongTwice ==
    [][ (last'.op = "prolongToken" /\ last'.err = NoErr) =>
          LET key == str(last'.user)
              later == Expire(store', now' + 1)
              second == prolongToken(later, get_by_id(last'.user), now' + 1, Skew)
          IN  /\ store'[key].value.claims.sub = store[key].value.claims.sub
              /\ store'[key].value.claims.iat = store[key].value.claims.iat
              /\ store'[key].value.claims.exp >= store[key].value.claims.exp
              /\ \A k \in SubjectKeys \ {key} : store'[k] = store[k]
              /\ (second.err = NoErr) =>
                    /\ second.ret # NoData /\ second.ret # last'.ret
                    /\ second.store[key].value.claims.sub = store'[key].value.claims.sub
                    /\ second.store[key].value.claims.iat = store'[key].value.claims.iat
                    /\ second.store[key].value.claims.exp >= store'[key].value.claims.exp
                    /\ \A k \in SubjectKeys \ {key} : second.store[k] = later[k]
      ]_vars

\* a successful prolongation, with a second one a second later that
\* succeeds too
C19_Witness ==
    /\ last.op = "prolongToken" /\ last.err = NoErr
    /\ LET second == prolongToken(Expire(store, now + 1), get_by_id(last.user), now + 1, Skew) IN
       /\ second.err = NoErr
       /\ second.ret # last.ret
       /\ second.store[LastKey].value = store[LastKey].value

\* the chain each flow links
ChainOf(op) ==
    CASE op \in {"refresh", "logout"} -> ValidateThenRevoke
      [] op = "prolongToken" -> ExpirationThenProlong
      [] op = "get_current_user" -> << "RefreshTokenValidityHandler" >>
\* the store the last request found (a request touches its subject's key only)
PreStore == [store EXCEPT ![LastKey] = last.pre]
SameError(a, b) == a.cls = b.cls /\ a.msg = b.msg

\* C21: BaseHandler.process calls the handlers in link order, each at most
\* once; the first handler that raises ends the walk, no later handler runs
\* (a refused RefreshTokenValidityHandler leaves RevokeRefreshTokenHandler
\* uncalled and the store as it was) and the caller gets that handler's
\* error; when none raises every handler has run exactly once.
C21_HandlersInLinkOrder ==
    /\ (last.op \in {"refresh", "logout", "prolongToken"}) =>
          LET chain == ChainOf(last.op)
              first == handle(chain[1], PreStore, LastSubject, now)
              second == handle(chain[2], first.store, LastSubject, now)
          IN  /\ first.err # NoErr =>
                    /\ last.ran = << chain[1] >>
                    /\ SameError(last.err, first.err)
                    /\ store = first.store /\ ~last.wrote
              /\ (first.err = NoErr /\ second.err # NoErr) =>
                    /\ last.ran = chain
                    /\ SameError(last.err, second.err)
                    /\ store = second.store
              /\ (first.err = NoErr /\ second.err = NoErr) =>
                    /\ last.ran = chain
                    /\ last.err = NoErr
    /\ (last.op = "get_current_user") => last.ran \in { <<>>, ChainOf(last.op) }
C21_Witness ==
    /\ last.op = "logout"
    /\ logged_out[last.user]
    /\ last.ran = << "RefreshTokenValidityHandler" >>
    /\ TokenAbsent(last.err)
    /\ \E k \in SubjectKeys : store[k] # NoEntry

\* C22: RefreshTokenExpirationValidityHandler tells its two failures apart:
\* with no entry for the subject it fails with the token-absent error, with
\* an entry whose expires_at is not in the future it fails with the
\* token-expired error, with an unexpired entry it succeeds; the store is
\* left as it was in all three cases.
C22_AbsentAndExpiredDistinct ==
    (checked.op = "refresh" /\ checked.at = now) =>
        /\ (StoredToken = NoData) =>
              (checked.err # NoErr /\ checked.err.msg = "token is absent" /\ ~ExpiredKind(checked.err))
        /\ (StoredToken # NoData /\ StoredToken.claims.exp <= now) => ExpiredKind(checked.err)
        /\ (StoredToken # NoData /\ StoredToken.claims.exp > now) => checked.err = NoErr
        /\ RefreshTokenExpirationValidityHandler(store, CoderSubject, now).store = store

\* the token the prolongation found under the subject's key
ProlongedToken == Get(checked.pre, str(CoderSubject.id), checked.at)

\* C23: ProlongRefreshTokenHandler fails with the negative-lifetime error
\* and writes nothing whenever the new expiry it computes (stored expires_at
\* plus the configured refresh lifetime) is earlier than issued_at, as under
\* a lifetime configured negative.
C23_NegativeLifetimeRefused ==
    (/\ checked.op = "prolong" /\ checked.at = now
     /\ ProlongedToken # NoData
     /\ decode(ProlongedToken, now).err = NoErr
     /\ ProlongedToken.claims.exp + timedelta_days(checked.arg) < ProlongedToken.claims.iat) =>
        /\ checked.err.cls = "InvalidIssuerError" /\ checked.err.msg = "days_in_sec < 0"
        /\ store = checked.pre

\* C24: a prolongation does not rotate: the token stored under the
\* subject's key is the same string before and after
\* ProlongRefreshTokenHandler.handle, the entry gets a new TTL and no other
\* key is touched.
C24_ProlongKeepsTokenString ==
    (checked.op = "prolong" /\ checked.at = now /\ checked.err = NoErr) =>
        LET key == str(CoderSubject.id) IN
        /\ ProlongedToken # NoData
        /\ store[key].value = ProlongedToken
        /\ store[key].expireAt =
              now + seconds_between(ProlongedToken.claims.iat,
                                    ProlongedToken.claims.exp + timedelta_days(checked.arg))
        /\ \A k \in SubjectKeys \ {key} : store[k] = checked.pre[k]
\* a token of an earlier second prolonged, as the service is configured,
\* to a TTL other than the one it had, while the other subject has an entry
C24_Witness ==
    /\ checked.op = "prolong" /\ checked.at = now /\ checked.err = NoErr
    /\ checked.arg = refresh_token_lifetime_days
    /\ ProlongedToken.claims.iat < now
    /\ store[str(CoderSubject.id)].expireAt # checked.pre[str(CoderSubject.id)].expireAt
    /\ \E k \in SubjectKeys \ {str(CoderSubject.id)} : store[k] # NoEntry

\* C25: AccessTokenFactory.create is stateless: a call neither reads nor
\* writes the store and looks for no earlier token, it returns a token every
\* time, so that any number of Access Tokens is issued for one subject, with
\* or without a Refresh Token entry for it.
C25_AccessCreateStateless ==
    [][ (issued' # issued) =>
            /\ store' = store
            /\ issued'.token # NoData
            /\ issued'.token.claims.sub = model_dump_json(UserSubject_validate(get_by_id(issued'.user)))
            /\ issued'.token.claims.iat = now
            /\ \A st \in {EmptyStore, store} :
                  service_get_current_user(st, issued'.token, now).err =
                      RefreshTokenValidityHandler(st, UserSubject_validate(get_by_id(issued'.user)), now).err
      ]_vars
\* a further Access Token of the subject whose Refresh Token is stored
C25_Witness ==
    /\ issued.user = CoderSubject.id /\ issued.token # NoData
    /\ issued.at = now /\ now > 0
    /\ StoredToken # NoData /\ StoredToken.claims.iat < now

\* a refresh stopped after its revoke, and no call has written since
StoppedAfterRevoke ==
    /\ \E p \in Procs : procs[p].pc = "stopped"
    /\ \A q \in Procs : ~procs[q].wrote
\* the Access Tokens of the subject issued up to now
AccessTokensSoFar == { BaseTokenFactory_create(RaceSubject, AccessDelta, t0, Skew) : t0 \in 0 .. now }

\* C26: when refresh(subject) stops after the revoke and before the create
\* (a crash, or create failing), the subject has no Refresh Token entry;
\* from then on refresh, logout, prolongToken and every authenticated
\* request of the subject fail and leave the store as it is, and only a
\* successful login creates an entry again.
C26_StoppedRefreshLogsOut ==
    StoppedAfterRevoke =>
        LET user_dto == get_by_id(RaceSubject.id) IN
        /\ store[RaceKey] = NoEntry
        /\ refresh(store, user_dto, now, Skew, Skew).err # NoErr
        /\ refresh(store, user_dto, now, Skew, Skew).store = store
        /\ logout(store, user_dto, now).err # NoErr
        /\ logout(store, user_dto, now).store = store
        /\ prolongToken(store, user_dto, now, Skew).err # NoErr
        /\ prolongToken(store, user_dto, now, Skew).store = store
        /\ \A access_token \in AccessTokensSoFar :
              get_current_user(store, access_token, now).err # NoErr
        /\ \A login \in Logins, password \in Passwords :
              LET r == authorize(store, login, password, now, Skew, Skew) IN
              /\ (r.store[RaceKey] # NoEntry) <=>
                    (r.err = NoErr /\ login = RaceSubject.login)
              /\ (login = RaceSubject.login /\ check_password(login, password)) =>
                    (r.err = NoErr /\ Get(r.store, RaceKey, now) = r.rt /\ r.rt # NoData)
\* the refresh of a logged-in subject stopped, the Access Token issued just
\* before is still inside its lifetime
C26_Witness ==
    /\ StoppedAfterRevoke
    /\ \E p \in Procs : procs[p].pc = "stopped" /\ procs[p].err.status = 500
    /\ \E access_token \in AccessTokensSoFar : decode(access_token, now).err = NoErr
    /\ \E q \in Procs : procs[q].pc = "done" /\ procs[q].op = "logout" /\ procs[q].err # NoErr

\* C27: after every successful authorize(login, password) the stored
\* Refresh Token of the user has its expires_at in the future, so that a
\* prolongToken right after the login succeeds, whatever came before, a
\* login made while an older entry is still in the store included.
C27_LoginLeavesLiveRefreshToken ==
    (last.op = "authorize" /\ last.err = NoErr) =>
        /\ Get(store, LastKey, now) # NoData
        /\ Get(store, LastKey, now).claims.exp > now
        /\ prolongToken(store, get_by_id(last.user), now, Skew).err = NoErr

\* C28: EmailWorker._send_email marks a recipient's notification DELIVERED
\* only if smtp_client.send_message has returned for that recipient; when
\* every try (two at most, a reconnect after each SMTPServerDisconnected)
\* fails, the notification is marked FAILED and never DELIVERED.
C28_DeliveredOnlyIfSent ==
    /\ \A u \in MailUsers : notification_status[u] = "delivered" => u \in accepted
    /\ (sending.pc = "update_status" /\ sending.user \notin accepted) => sending.status = "failed"

\* C29: handle_sso_user logs a returning SSO user in: for an identity
\* (provider, sso_id) that has a user record already it returns an Access
\* Token of that user, as it does for a new identity right after creating
\* the record.
C29_SsoUserLoggedIn ==
    (sso_last.op = "handle_sso_user") =>
        /\ sso_last.err = NoErr
        /\ sso_last.ret # NoData
        /\ model_validate_json(sso_last.ret.claims.sub).id =
              get_by_sso_id(users, sso_last.provider, sso_last.sso_id).id

\* how often websocket stands in conns
Occurrences(conns, websocket) == Cardinality({ i \in 1 .. Len(conns) : conns[i] = websocket })

\* C30: after any sequence of connect and disconnect calls
\* active_connections maps no user id to an empty list, every websocket
\* stands under a user id as many times as it was connected for that id
\* minus the times a disconnect found it there, and a disconnect for an
\* unknown user id or for a websocket not listed changes nothing.
C30_ConnectionsConsistent ==
    /\ DOMAIN active_connections \subseteq WsUserIds
    /\ \A u \in DOMAIN active_connections : active_connections[u] # << >>
    /\ \A u \in WsUserIds, w \in WebSockets :
          Occurrences(connections_get(active_connections, u), w) = ws_count[u][w]
    /\ (/\ ws_last.op = "disconnect"
        /\ Occurrences(connections_get(ws_last.pre, ws_last.user_id), ws_last.websocket) = 0) =>
          active_connections = ws_last.pre
\* a websocket connected twice under one id and disconnected once, beside
\* another websocket of that id, while the other id has no key
C30_Witness ==
    /\ ws_last.op = "disconnect"
    /\ ws_last.user_id \in DOMAIN ws_last.pre
    /\ Occurrences(ws_last.pre[ws_last.user_id], ws_last.websocket) = 2
    /\ Len(ws_last.pre[ws_last.user_id]) = 3
    /\ ws_count[ws_last.user_id][ws_last.websocket] = 1
    /\ \E u \in WsUserIds : u \notin DOMAIN active_connections

====
